---- MODULE Spec2Model ----
(***************************************************************************)
(* The withdrawal/relay pipeline of the zknon backend.                     *)
(*                                                                         *)
(* src/server.js holds two servers: the first (lines 1-212) serves         *)
(* handleRelay through guard() and doWithdraw(); the second (lines         *)
(* 214-454) serves handleWithdraw through checkRateLimit() and             *)
(* confirmBySignature().  Both are modelled here, each with its own        *)
(* module-level state, against one wall clock and one RPC node, and with   *)
(* them the server of src/unnamed/part_000 (its guard() and placeholder).  *)
(*                                                                         *)
(* A handler runs to its next await in one step (JavaScript runs a         *)
(* callback to completion), so every action below is one such run: the     *)
(* arrival of a request up to its first RPC call, or the return of an RPC  *)
(* call up to the next one or to the response.                             *)
(***************************************************************************)
EXTENDS Integers, Sequences, FiniteSets, TLC

(* ------------------------------------------------------------------ *)
(* Bounds of the model                                                 *)
(* ------------------------------------------------------------------ *)
\* The clock starts here (Date.now() at process start) ...
StartMs == 10000
\* ... and advances in steps of TickMs, MaxTicks times at most.
TickMs == 500
MaxTicks == 6
\* guard() calls counted within one window before arrivals are cut off.
MaxCalls == 4
\* The time budget handleWithdraw gives confirmBySignature (60000 in the
\* source, scaled to two sleeps of the poll loop).
ConfirmTimeoutMs == 3000

(* ------------------------------------------------------------------ *)
(* Program constants                                                   *)
(* ------------------------------------------------------------------ *)
\* Number(process.env.TX_RATELIMIT || 8): the configured limit.
TX_RATELIMIT == 2
\* The second server reads the same variable as a gap in seconds.
TX_MIN_GAP_SEC == 1
\* guard(): now - windowStart > 1000
WindowMs == 1000
\* confirmBySignature: await sleep(1500)
SleepMs == 1500
LAMPORTS_PER_SOL == 1000000000

\* The requests of a burst: one more than the limit.
NumBurst == TX_RATELIMIT + 1

VARIABLES
    now,          \* Date.now()
    calls,        \* first server: let calls
    windowStart,  \* first server: let windowStart
    lastTxTs,     \* second server: let lastTxTs
    reqs,         \* the request slots
    win,          \* history of the current guard() window (not program state)
    world         \* what the clients send and what the node may answer

vars == <<now, calls, windowStart, lastTxTs, reqs, win, world>>

(* ------------------------------------------------------------------ *)
(* JSON values of a request body and JavaScript's conversions          *)
(* ------------------------------------------------------------------ *)
\* A JavaScript number or BigInt: finite and small (counted in halves, so
\* that 1.5 is h = 3), NaN, +Infinity, or an integer from 2^53 on, where
\* Big(d) is 2^53 + d.
Fin(h) == [k |-> "fin", h |-> h]
NaN == [k |-> "nan", h |-> 0]
Infinity == [k |-> "inf", h |-> 0]
Big(d) == [k |-> "big", h |-> d]

\* The double nearest to an integer (ties to the even mantissa): from 2^53
\* to 2^54 the doubles are the even integers.
RoundToDouble(x) ==
    IF x.k = "big" /\ x.h % 2 = 1
    THEN IF (x.h \div 2) % 2 = 0 THEN Big(x.h - 1) ELSE Big(x.h + 1)
    ELSE x

\* The decimal literal of 2^53 + 1.
BigLiteral == "9007199254740993"

JUndef == [t |-> "undefined", s |-> "", n |-> NaN]
JNum(x) == [t |-> "number", s |-> "", n |-> x]
JStr(str) == [t |-> "string", s |-> str, n |-> NaN]

StringToNumber(str) ==
    CASE str = "" -> Fin(0)
      [] str = "0" -> Fin(0)
      [] str = "5" -> Fin(10)
      [] str = "-5" -> Fin(-10)
      [] str = "1.5" -> Fin(3)
      [] str = "Infinity" -> Infinity
      [] str = BigLiteral -> RoundToDouble(Big(1))
      [] OTHER -> NaN

\* Number(v)
ToNumber(v) ==
    CASE v.t = "undefined" -> NaN
      [] v.t = "number" -> v.n
      [] OTHER -> StringToNumber(v.s)

\* !!v
Truthy(v) ==
    CASE v.t = "undefined" -> FALSE
      [] v.t = "number" ->
            (v.n.k \in {"inf", "big"}) \/ (v.n.k = "fin" /\ v.n.h # 0)
      [] OTHER -> v.s # ""

\* v <= 0 : the operand is converted with Number(); NaN compares false.
LeqZero(v) ==
    LET x == ToNumber(v) IN x.k = "fin" /\ x.h <= 0

\* Number.isFinite(x)
IsFinite(x) == x.k \in {"fin", "big"}

\* x > 0
GtZero(x) == x.k \in {"inf", "big"} \/ (x.k = "fin" /\ x.h > 0)

\* Whether x is an integer (BigInt(x) of a number throws a RangeError on
\* anything else).
IsInteger(x) == x.k = "big" \/ (x.k = "fin" /\ x.h % 2 = 0)

(* ------------------------------------------------------------------ *)
(* Addresses, transactions, the node                                   *)
(* ------------------------------------------------------------------ *)
GoodAddress == "Recipient1111"
BadAddress == "not-an-address"
\* The public key of the keypair decoded from POOL_SECRET_B58, and the key
\* of some other account.
PoolKey == "PoolKey"
OtherKey == "OtherKey"

\* process.env.POOL_ADDRESS: unset, the address of the keypair, or another
\* well-formed address (an address is named by its key).
PoolAddresses == {"", PoolKey, OtherKey}

\* First server: new PublicKey(process.env.POOL_ADDRESS ||
\* POOL_KEYPAIR.publicKey.toBase58())
PoolPubkey(env) == IF env = "" THEN PoolKey ELSE env

\* Whether the module-level code of each server runs through to
\* app.listen: the second server throws when POOL_ADDRESS is missing.
RelayStarts(env) == TRUE
WithdrawStarts(env) == env # ""
\* part_000 exits when POOL_ADDRESS is missing.
Part0Starts(env) == env # ""

\* new PublicKey(str): the key of a well-formed address, "none" when the
\* constructor throws.
PublicKeyOf(str) == IF str = GoodAddress THEN "RecipientKey" ELSE "none"

Blockhashes == {"H1", "H2"}
\* The serialized signed transaction: one transfer, one signature of the
\* pool's key over the message (ed25519 is deterministic, so the bytes are
\* a function of the message).
SignedTx(from, to, lamports, bh) ==
    [from |-> from, to |-> to, lamports |-> lamports, blockhash |-> bh,
     signer |-> PoolKey]

\* The identifier the node returns for a broadcast: the transaction's
\* signature.
SigOf(tx) == <<"sig", tx.to, tx.lamports, tx.blockhash>>
NoSig == <<>>

(* ------------------------------------------------------------------ *)
(* Error messages, as sequences of words                               *)
(* ------------------------------------------------------------------ *)
NoMsg == <<>>
MsgRateLimit == <<"Rate", "limit">>
MsgRecipientRequired == <<"recipient", "required">>
MsgAmountLamports == <<"amountLamports", "must", "be", ">", "0">>
MsgInvalidPublicKey == <<"Invalid", "public", "key", "input">>
MsgNotAnInteger == <<"cannot", "be", "converted", "to", "a", "BigInt">>
MsgBlockhashNotFound == <<"Blockhash", "not", "found">>
MsgBlockHeightExceeded == <<"block", "height", "exceeded">>
MsgExpired == <<"Transaction", "has", "Expired">>
MsgInsufficient == <<"insufficient", "lamports">>
MsgNonSigner == <<"Cannot", "sign", "with", "non", "signer", "key">>
MsgFetchFailed == <<"fetch", "failed">>

\* What the node (or the transport to it) may answer instead of a result.
NodeErrors ==
    {MsgBlockhashNotFound, MsgBlockHeightExceeded, MsgExpired,
     MsgInsufficient, MsgFetchFailed}

LowerWord(w) ==
    CASE w = "Blockhash" -> "blockhash"
      [] w = "Transaction" -> "transaction"
      [] w = "Expired" -> "expired"
      [] w = "Rate" -> "rate"
      [] w = "Invalid" -> "invalid"
      [] w = "BigInt" -> "bigint"
      [] w = "Too" -> "too"
      [] w = "Broadcasted," -> "broadcasted,"
      [] OTHER -> w

\* Whether the words of phrase occur, in order and adjacent, in msg
\* (ignoring case).
HasPhrase(msg, phrase) ==
    \E i \in 1..Len(msg) :
        /\ i + Len(phrase) - 1 <= Len(msg)
        /\ \A j \in 1..Len(phrase) : LowerWord(msg[i + j - 1]) = phrase[j]

\* A test that takes every message for an expiry.
IsHashExpiry_mutAll(msg) == TRUE

\* A test whose third alternative matches 'limit'.
IsHashExpiry_mutRate(msg) ==
    \/ HasPhrase(msg, <<"block", "height", "exceeded">>)
    \/ HasPhrase(msg, <<"blockhash", "not", "found">>)
    \/ HasPhrase(msg, <<"limit">>)

\* /block height exceeded|Blockhash not found|expired/i.test(msg)
IsHashExpiry(msg) ==
    \/ HasPhrase(msg, <<"block", "height", "exceeded">>)
    \/ HasPhrase(msg, <<"blockhash", "not", "found">>)
    \/ HasPhrase(msg, <<"expired">>)

(* ------------------------------------------------------------------ *)
(* Requests                                                            *)
(* ------------------------------------------------------------------ *)
NoBody == [recipient |-> JUndef, amountLamports |-> JUndef,
           to |-> JUndef, amount |-> JUndef]

NoResp == [sent |-> FALSE, ok |-> FALSE, status |-> 0, error |-> NoMsg,
           signature |-> NoSig, note |-> FALSE, retry |-> 0]

Idle == [pc |-> "idle", handler |-> "none", body |-> NoBody,
         phase |-> 0, attempts |-> 0, rpc |-> <<>>, txs |-> <<>>,
         err1 |-> NoMsg, bsig |-> NoSig, seen |-> "none", seenErr |-> FALSE,
         gate |-> "none", start |-> 0, wake |-> 0, resp |-> NoResp,
         nresp |-> 0, cbs |-> [how |-> "none", why |-> "none"]]

\* res.status(code).json(...) / res.json(...): one more response is sent.
Respond(r, resp) ==
    [r EXCEPT !.pc = "done", !.resp = resp, !.nresp = @ + 1]

\* fail(res, code, error)
Fail(r, code, msg) ==
    Respond(r, [sent |-> TRUE, ok |-> FALSE, status |-> code, error |-> msg,
                signature |-> NoSig, note |-> FALSE, retry |-> 0])

\* ok(res, {signature, explorer, lastValidBlockHeight[, retry]})
Ok(r, sig, retry) ==
    Respond(r, [sent |-> TRUE, ok |-> TRUE, status |-> 200, error |-> NoMsg,
                signature |-> sig, note |-> FALSE, retry |-> retry])

Call(r, method) ==
    [r EXCEPT !.rpc = Append(@, [m |-> method, a |-> r.attempts])]

(* ------------------------------------------------------------------ *)
(* First server: guard(), doWithdraw(), handleRelay                    *)
(* ------------------------------------------------------------------ *)
\* guard() with the counter compared before it is incremented.
Guard_mutPost(c, ws, t) ==
    LET reset == t - ws > WindowMs
        c0 == IF reset THEN 0 ELSE c
    IN  [windowStart |-> IF reset THEN t ELSE ws, calls |-> c0 + 1,
         reset |-> reset, throws |-> c0 > TX_RATELIMIT]

\* guard(): the state it leaves and whether it throws 'Rate limit'.
Guard(c, ws, t) ==
    LET reset == t - ws > WindowMs
        c0 == IF reset THEN 0 ELSE c
    IN  [windowStart |-> IF reset THEN t ELSE ws, calls |-> c0 + 1,
         reset |-> reset, throws |-> c0 + 1 > TX_RATELIMIT]

\* doWithdraw with the reference hash requested before the recipient is
\* parsed.
DoWithdrawEnter_mutLate(r) ==
    LET r1 == Call([r EXCEPT !.attempts = @ + 1], "getLatestBlockhash")
    IN  IF PublicKeyOf(r.body.recipient.s) = "none"
        THEN [thrown |-> TRUE, msg |-> MsgInvalidPublicKey, r |-> r1]
        ELSE [thrown |-> FALSE, msg |-> NoMsg, r |-> [r1 EXCEPT !.pc = "hash"]]

\* doWithdraw, from its call to its first await: new PublicKey(recipientStr),
\* then the getLatestBlockhash request.
DoWithdrawEnter(r) ==
    LET r1 == [r EXCEPT !.attempts = @ + 1]
    IN  IF PublicKeyOf(r.body.recipient.s) = "none"
        THEN [thrown |-> TRUE, msg |-> MsgInvalidPublicKey, r |-> r1]
        ELSE [thrown |-> FALSE, msg |-> NoMsg,
              r |-> [Call(r1, "getLatestBlockhash") EXCEPT !.pc = "hash"]]

\* The retry inside the catch block: its own try/catch ends in 502.
RelayRetry(r) ==
    LET e == DoWithdrawEnter([r EXCEPT !.phase = 2])
    IN  IF e.thrown THEN Fail(e.r, 502, e.msg) ELSE e.r

\* The catch block of handleRelay.
RelayCatch(r, msg) ==
    LET r1 == [r EXCEPT !.err1 = msg]
    IN  IF IsHashExpiry(msg) THEN RelayRetry(r1) ELSE Fail(r1, 502, msg)

\* A throw that is caught by the retry's catch block as well as by the
\* first one, so that the retry is retried.
RelayThrow_mutLoop(r, msg) == RelayCatch(r, msg)

\* An exception in handleRelay: caught by the outer catch in the try block
\* (phase 1), by the inner one during the retry (phase 2).
RelayThrow(r, msg) ==
    IF r.phase = 2 THEN Fail(r, 502, msg) ELSE RelayCatch(r, msg)

\* handleRelay, from the request to its first await: guard(), the two
\* checks of the body, the call of doWithdraw.
HandleRelayEnter(r, throws) ==
    LET r1 == [r EXCEPT !.phase = 1,
                        !.gate = IF throws THEN "denied" ELSE "admitted"]
    IN  IF throws THEN RelayThrow(r1, MsgRateLimit)
        ELSE IF ~Truthy(r.body.recipient)
        THEN Fail(r1, 400, MsgRecipientRequired)
        ELSE IF ~Truthy(r.body.amountLamports) \/ LeqZero(r.body.amountLamports)
        THEN Fail(r1, 400, MsgAmountLamports)
        ELSE LET e == DoWithdrawEnter(r1)
             IN  IF e.thrown THEN RelayThrow(e.r, e.msg) ELSE e.r

\* doWithdraw after getLatestBlockhash returned bh: the transfer
\* instruction (its lamports are encoded with BigInt(...), which throws on
\* a number that is no integer), the v0 message paid by POOL_PUBKEY, the
\* signature (tx.sign throws when POOL_KEYPAIR is no signer of the
\* message), and the sendRawTransaction request.
DoWithdrawBuild(r, bh) ==
    LET x == ToNumber(r.body.amountLamports)
    IN  IF ~IsInteger(x) THEN RelayThrow(r, MsgNotAnInteger)
        ELSE IF world.source # PoolKey THEN RelayThrow(r, MsgNonSigner)
        ELSE [Call(r, "sendRawTransaction") EXCEPT
                 !.pc = "send",
                 !.txs = Append(@, SignedTx(world.source,
                                            PublicKeyOf(r.body.recipient.s),
                                            x, bh))]

\* doWithdraw returned { signature, lastValidBlockHeight }: the response.
RelaySent(r) ==
    LET sig == SigOf(r.txs[Len(r.txs)])
    IN  Ok([r EXCEPT !.bsig = sig], sig, IF r.phase = 2 THEN 1 ELSE 0)

(* ------------------------------------------------------------------ *)
(* The history of the current guard() window                           *)
(* ------------------------------------------------------------------ *)
\* pass counts the calls of guard() in the window that returned; lastAdm
\* is the time of the latest request checkRateLimit() admitted (0: none).
NoWin ==
    [arr |-> 0, adm |-> 0, rej |-> 0, dw |-> 0, other |-> 0, pass |-> 0,
     lastAdm |-> 0]

WinRelay(g, r) ==
    LET w == IF g.reset THEN NoWin ELSE win
    IN  [w EXCEPT !.arr = @ + 1,
                  !.adm = @ + (IF r.gate = "admitted" THEN 1 ELSE 0),
                  !.rej = @ + (IF r.gate = "denied" THEN 1 ELSE 0),
                  !.dw = @ + (IF r.attempts > 0 THEN 1 ELSE 0),
                  !.pass = @ + (IF g.throws THEN 0 ELSE 1)]

WinOther(g) ==
    LET w == IF g.reset THEN NoWin ELSE win
    IN  [w EXCEPT !.other = @ + 1,
                  !.pass = @ + (IF g.throws THEN 0 ELSE 1)]

(* ------------------------------------------------------------------ *)
(* Actions of the first server                                         *)
(* ------------------------------------------------------------------ *)
RelayRecipients == {JUndef, JStr(BadAddress), JStr(GoodAddress)}
RelayAmounts ==
    {JUndef, JNum(Fin(-10)), JNum(Fin(10)), JNum(Fin(3)), JStr("abc"),
     JStr("Infinity"), JStr(BigLiteral)}

RelayBodies ==
    {[NoBody EXCEPT !.recipient = a, !.amountLamports = l] :
        a \in RelayRecipients, l \in RelayAmounts}

\* POST /relay, /relay-withdraw, /withdraw
RelayArrive(i) ==
    /\ world.server = "relay"
    /\ reqs[i].pc = "idle"
    /\ \E b \in world.relayBodies :
        LET g == Guard(calls, windowStart, now)
            r == HandleRelayEnter([Idle EXCEPT !.handler = "relay",
                                               !.body = b], g.throws)
        IN  /\ g.calls <= MaxCalls
            /\ calls' = g.calls
            /\ windowStart' = g.windowStart
            /\ reqs' = [reqs EXCEPT ![i] = r]
            /\ win' = WinRelay(g, r)
    /\ UNCHANGED <<now, lastTxTs, world>>

\* POST /rpc-proxy: the other route behind guard() (only its use of the
\* counter is followed).
RpcProxyArrive ==
    LET g == Guard(calls, windowStart, now)
    IN  /\ world.server = "relay"
        /\ g.calls <= MaxCalls
        /\ calls' = g.calls
        /\ windowStart' = g.windowStart
        /\ win' = WinOther(g)
        /\ UNCHANGED <<now, lastTxTs, reqs, world>>

\* getLatestBlockhash returns, or fails.
RelayHashReturn(i) ==
    /\ reqs[i].handler = "relay" /\ reqs[i].pc = "hash"
    /\ \/ \E bh \in world.hashes :
            reqs' = [reqs EXCEPT ![i] = DoWithdrawBuild(reqs[i], bh)]
       \/ \E m \in world.errors :
            reqs' = [reqs EXCEPT ![i] = RelayThrow(reqs[i], m)]
    /\ UNCHANGED <<now, calls, windowStart, lastTxTs, win, world>>

\* sendRawTransaction returns the signature, or fails.
RelaySendReturn(i) ==
    /\ reqs[i].handler = "relay" /\ reqs[i].pc = "send"
    /\ \/ reqs' = [reqs EXCEPT ![i] = RelaySent(reqs[i])]
       \/ \E m \in world.errors :
            reqs' = [reqs EXCEPT ![i] = RelayThrow(reqs[i], m)]
    /\ UNCHANGED <<now, calls, windowStart, lastTxTs, win, world>>

(* ------------------------------------------------------------------ *)
(* The server of src/unnamed/part_000: guard(), /rpc-proxy, handleRelay *)
(* ------------------------------------------------------------------ *)
MsgRelayNotConfigured == <<"relay_not_configured">>

\* guard() of part_000: if (calls++ > TX_RATELIMIT) throw.
Part0Guard(c, ws, t) ==
    LET reset == t - ws > WindowMs
        c0 == IF reset THEN 0 ELSE c
    IN  [windowStart |-> IF reset THEN t ELSE ws, calls |-> c0 + 1,
         reset |-> reset, throws |-> c0 > TX_RATELIMIT]

\* POST /rpc-proxy of part_000: the one route behind its guard() (only
\* its use of the counter is followed).
Part0RpcProxyArrive ==
    LET g == Part0Guard(calls, windowStart, now)
    IN  /\ world.server = "part0"
        /\ g.calls <= MaxCalls
        /\ calls' = g.calls
        /\ windowStart' = g.windowStart
        /\ win' = WinOther(g)
        /\ UNCHANGED <<now, lastTxTs, reqs, world>>

\* POST /relay, /relay-withdraw of part_000: the placeholder answers 501
\* without a call of guard().
Part0RelayArrive(i) ==
    /\ world.server = "part0"
    /\ reqs[i].pc = "idle"
    /\ \E b \in world.relayBodies :
        reqs' = [reqs EXCEPT ![i] =
                    Fail([Idle EXCEPT !.handler = "placeholder", !.body = b,
                                      !.phase = 1],
                         501, MsgRelayNotConfigured)]
    /\ UNCHANGED <<now, calls, windowStart, lastTxTs, win, world>>

(* ------------------------------------------------------------------ *)
(* Second server: checkRateLimit(), confirmBySignature(), handleWithdraw *)
(* ------------------------------------------------------------------ *)
MsgTooMany == <<"Too", "many", "requests,", "wait">>
MsgTargetRequired == <<"target", "required">>
MsgAmountRequired == <<"amount", "or", "amountLamports", "required">>
MsgInvalidAmount == <<"invalid", "amount">>
MsgBigIntSyntax == <<"Cannot", "convert", "to", "a", "BigInt">>
MsgConfirmTimeout == <<"Confirmation", "timeout">>

\* checkRateLimit() that notes the time of a call it rejects.
CheckRateLimit_mutTouch(last, t) ==
    IF TX_MIN_GAP_SEC = 0 THEN [throws |-> FALSE, lastTxTs |-> last]
    ELSE IF t - last < TX_MIN_GAP_SEC * 1000
    THEN [throws |-> TRUE, lastTxTs |-> t]
    ELSE [throws |-> FALSE, lastTxTs |-> t]

\* checkRateLimit(): whether it throws, and lastTxTs afterwards.
\* gap = (now - lastTxTs) / 1000 < TX_MIN_GAP_SEC
CheckRateLimit(last, t) ==
    IF TX_MIN_GAP_SEC = 0 THEN [throws |-> FALSE, lastTxTs |-> last]
    ELSE IF t - last < TX_MIN_GAP_SEC * 1000
    THEN [throws |-> TRUE, lastTxTs |-> last]
    ELSE [throws |-> FALSE, lastTxTs |-> t]

\* String.prototype.trim on the strings of the model.
Trim(str) == IF str = " Recipient1111 " THEN GoodAddress ELSE str

\* (body.to || body.target || "").trim()
Target(body) == IF Truthy(body.to) THEN Trim(body.to.s) ELSE ""

\* v.toString() of a number or a string.
ToStringJS(v) ==
    IF v.t = "string" THEN v.s
    ELSE CASE v.n.k = "inf" -> "Infinity"
           [] v.n.k = "nan" -> "NaN"
           [] v.n = Fin(10) -> "5"
           [] v.n = Fin(-10) -> "-5"
           [] v.n = Fin(0) -> "0"
           [] v.n = Fin(3) -> "1.5"
           [] OTHER -> "?"

\* BigInt(str): the integer of an integer literal (exactly, whatever its
\* size), a SyntaxError otherwise.
BigIntParses(str) == str \in {"", "0", "5", "-5", BigLiteral}
BigIntOfString(str) ==
    IF str = BigLiteral THEN Big(1) ELSE StringToNumber(str)

\* Math.round(x), x a finite number in halves: .5 rounds up.
MathRound(x) == Fin(2 * ((x.h + 1) \div 2))

\* amountSol * LAMPORTS_PER_SOL
SolToLamports(x) == Fin(x.h * LAMPORTS_PER_SOL)

\* const lamportsNumber = Number(lamports), and the check of it.
LamportsNumber(lamports) ==
    LET n == RoundToDouble(lamports)
    IN  IF ~IsFinite(n) \/ ~GtZero(n)
        THEN [end |-> "400", msg |-> MsgInvalidAmount, n |-> NaN]
        ELSE [end |-> "ok", msg |-> NoMsg, n |-> n]

\* The lamports of a body, as handleWithdraw computes them (lines 364-387):
\* how the computation ends and, when it ends well, lamportsNumber.
WithdrawLamports(body) ==
    LET amountSol == ToNumber(body.amount)
        raw == body.amountLamports
    IN  IF raw.t # "undefined"
        THEN IF ~BigIntParses(ToStringJS(raw))
             THEN [end |-> "throw", msg |-> MsgBigIntSyntax, n |-> NaN]
             ELSE LamportsNumber(BigIntOfString(ToStringJS(raw)))
        ELSE IF IsFinite(amountSol) /\ GtZero(amountSol)
        THEN LamportsNumber(MathRound(SolToLamports(amountSol)))
        ELSE [end |-> "400", msg |-> MsgAmountRequired, n |-> NaN]

\* res.json({ ok: true, withdrawSignature: sig })
WithdrawOk(r, sig) ==
    Respond(r, [sent |-> TRUE, ok |-> TRUE, status |-> 200, error |-> NoMsg,
                signature |-> sig, note |-> FALSE, retry |-> 0])

\* The inner catch that answers with a failure.
ConfirmCatch_mutFail(r, msg) == Fail(r, 500, msg)

\* The catch around confirmBySignature: res.json({ ok: true,
\* withdrawSignature: sig, note: "Broadcasted, confirmation pending
\* on-chain." })
ConfirmCatch(r, msg) ==
    Respond(r, [sent |-> TRUE, ok |-> TRUE, status |-> 200, error |-> NoMsg,
                signature |-> r.bsig, note |-> TRUE, retry |-> 0])

\* confirmBySignature ends by an exception (its own throw past the budget,
\* or the rejection of getSignatureStatuses): the caller's catch runs.
ConfirmThrow(r, why, msg) ==
    ConfirmCatch([r EXCEPT !.cbs = [how |-> "throw", why |-> why]], msg)

\* An outer catch that builds and submits once more after an expiry
\* error.
WithdrawCatch_mutRetry(r, msg) ==
    IF IsHashExpiry(msg) /\ r.attempts = 1
    THEN [Call([r EXCEPT !.err1 = msg, !.attempts = 2], "getLatestBlockhash")
             EXCEPT !.pc = "hash"]
    ELSE Fail([r EXCEPT !.err1 = msg], 500, msg)

\* The outer catch: res.status(500).json({ ok: false, error })
WithdrawCatch(r, msg) == Fail([r EXCEPT !.err1 = msg], 500, msg)

\* A poll loop without its time budget (its polls are left out of the log).
ConfirmLoop_mutForever(r, t) == [r EXCEPT !.pc = "status"]

\* The head of the poll loop: while (Date.now() - start < timeoutMs), then
\* the getSignatureStatuses request; past the budget, throw.
ConfirmLoop(r, t) ==
    IF t - r.start < ConfirmTimeoutMs
    THEN [Call(r, "getSignatureStatuses") EXCEPT !.pc = "status"]
    ELSE ConfirmThrow(r, "timeout", MsgConfirmTimeout)

\* new PublicKey(target), then the getLatestBlockhash request (lines
\* 389-399).
WithdrawParse(r, target) ==
    IF PublicKeyOf(target) = "none"
    THEN WithdrawCatch(r, MsgInvalidPublicKey)
    ELSE [Call(r, "getLatestBlockhash") EXCEPT !.pc = "hash"]

\* handleWithdraw, from the request to its first await.
HandleWithdrawEnter(r, throws) ==
    LET r1 == [r EXCEPT !.phase = 1,
                        !.gate = IF throws THEN "denied" ELSE "admitted"]
        target == Target(r.body)
        l == WithdrawLamports(r.body)
    IN  IF throws THEN WithdrawCatch(r1, MsgTooMany)
        ELSE IF target = "" THEN Fail(r1, 400, MsgTargetRequired)
        ELSE IF l.end = "throw" THEN WithdrawCatch(r1, l.msg)
        ELSE IF l.end = "400" THEN Fail(r1, 400, l.msg)
        ELSE WithdrawParse([r1 EXCEPT !.attempts = 1], target)

\* After getLatestBlockhash: the transfer, the transaction, the signature,
\* the sendRawTransaction request (lines 400-417).
WithdrawBuild(r, bh) ==
    [Call(r, "sendRawTransaction") EXCEPT
        !.pc = "send",
        !.txs = Append(@, SignedTx(world.source, PublicKeyOf(Target(r.body)),
                                   WithdrawLamports(r.body).n, bh))]

\* After sendRawTransaction returned sig: confirmBySignature(sig, 60000)
\* starts.
WithdrawSent(r, t) ==
    ConfirmLoop([r EXCEPT !.bsig = SigOf(r.txs[Len(r.txs)]), !.start = t], t)

\* The statuses getSignatureStatuses may report for the signature: the
\* confirmation level (value[0] may be null) and whether err is set.
Statuses ==
    {[cs |-> "null", err |-> FALSE], [cs |-> "processed", err |-> FALSE],
     [cs |-> "confirmed", err |-> FALSE], [cs |-> "finalized", err |-> FALSE],
     [cs |-> "confirmed", err |-> TRUE]}

\* A status that counts as confirmation.
IsConfirmed(st) == st.cs = "confirmed" \/ st.cs = "finalized"

\* After getSignatureStatuses returned st: return it, or sleep(1500).
ConfirmStatus(r, st, t) ==
    LET r1 == [r EXCEPT !.seen = st.cs, !.seenErr = @ \/ st.err]
    IN  IF IsConfirmed(st)
        THEN WithdrawOk([r1 EXCEPT !.cbs = [how |-> "return",
                                            why |-> "confirmed"]], r.bsig)
        ELSE [r1 EXCEPT !.pc = "sleep", !.wake = t + SleepMs]

(* ------------------------------------------------------------------ *)
(* Actions of the second server                                        *)
(* ------------------------------------------------------------------ *)
WithdrawTargets ==
    {JUndef, JStr(BadAddress), JStr(GoodAddress), JStr(" Recipient1111 ")}

\* The pairs (amount, amountLamports) of a body.
WithdrawAmounts ==
    {<<JUndef, JUndef>>, <<JUndef, JNum(Fin(10))>>, <<JNum(Fin(2)), JUndef>>,
     <<JUndef, JNum(Fin(3))>>, <<JUndef, JStr("abc")>>,
     <<JUndef, JStr("Infinity")>>, <<JUndef, JNum(Fin(-10))>>,
     <<JStr("abc"), JUndef>>, <<JNum(Infinity), JUndef>>,
     <<JUndef, JStr(BigLiteral)>>}

WithdrawBodies ==
    {[NoBody EXCEPT !.to = a, !.amount = p[1], !.amountLamports = p[2]] :
        a \in WithdrawTargets, p \in WithdrawAmounts}

\* POST /relay/withdraw, /withdraw
WithdrawArrive(i) ==
    /\ reqs[i].pc = "idle"
    /\ \E b \in world.withdrawBodies :
        LET c == CheckRateLimit(lastTxTs, now)
        IN  /\ lastTxTs' = c.lastTxTs
            /\ reqs' = [reqs EXCEPT ![i] =
                   HandleWithdrawEnter([Idle EXCEPT !.handler = "withdraw",
                                                    !.body = b], c.throws)]
            /\ win' = IF c.throws THEN win ELSE [win EXCEPT !.lastAdm = now]
    /\ UNCHANGED <<now, calls, windowStart, world>>

\* connection.getLatestBlockhash("finalized") returns, or fails.
WithdrawHashReturn(i) ==
    /\ reqs[i].handler = "withdraw" /\ reqs[i].pc = "hash"
    /\ \/ \E bh \in world.hashes :
            reqs' = [reqs EXCEPT ![i] = WithdrawBuild(reqs[i], bh)]
       \/ \E m \in world.errors :
            reqs' = [reqs EXCEPT ![i] = WithdrawCatch(reqs[i], m)]
    /\ UNCHANGED <<now, calls, windowStart, lastTxTs, win, world>>

\* connection.sendRawTransaction returns the signature, or fails.
WithdrawSendReturn(i) ==
    /\ reqs[i].handler = "withdraw" /\ reqs[i].pc = "send"
    /\ \/ reqs' = [reqs EXCEPT ![i] = WithdrawSent(reqs[i], now)]
       \/ \E m \in world.errors :
            reqs' = [reqs EXCEPT ![i] = WithdrawCatch(reqs[i], m)]
    /\ UNCHANGED <<now, calls, windowStart, lastTxTs, win, world>>

\* connection.getSignatureStatuses returns, or fails.
WithdrawStatusReturn(i) ==
    /\ reqs[i].handler = "withdraw" /\ reqs[i].pc = "status"
    /\ \/ \E st \in world.statuses :
            reqs' = [reqs EXCEPT ![i] = ConfirmStatus(reqs[i], st, now)]
       \/ \E m \in world.errors :
            reqs' = [reqs EXCEPT ![i] = ConfirmThrow(reqs[i], "rpc", m)]
    /\ UNCHANGED <<now, calls, windowStart, lastTxTs, win, world>>

\* The timer of sleep(1500) fires (at its time or later): the loop goes on.
WithdrawWake(i) ==
    /\ reqs[i].handler = "withdraw" /\ reqs[i].pc = "sleep"
    /\ now >= reqs[i].wake
    /\ reqs' = [reqs EXCEPT ![i] = ConfirmLoop(reqs[i], now)]
    /\ UNCHANGED <<now, calls, windowStart, lastTxTs, win, world>>

(* ------------------------------------------------------------------ *)
(* The clock, the connection, the specification                        *)
(* ------------------------------------------------------------------ *)
Tick ==
    /\ now < StartMs + MaxTicks * TickMs
    /\ now' = now + TickMs
    /\ UNCHANGED <<calls, windowStart, lastTxTs, reqs, win, world>>

\* The end of the clock's range, and the age from which on no comparison
\* of the program tells two times apart (every threshold is below it).
Horizon == StartMs + MaxTicks * TickMs
MaxAge == ConfirmTimeoutMs + SleepMs
Floor == Horizon - MaxAge

\* A time of the past seen one tick later from the end of the range.
Shift(t) ==
    IF t <= Floor THEN t
    ELSE IF t - TickMs < Floor THEN Floor ELSE t - TickMs

\* The clock without an end: up to Horizon it advances; from there on one
\* more tick makes every stored time one tick older instead (the program
\* only compares differences of times, and ages are capped at MaxAge).
TickLive ==
    IF now < Horizon
    THEN /\ now' = now + TickMs
         /\ UNCHANGED <<calls, windowStart, lastTxTs, reqs, win, world>>
    ELSE /\ windowStart' = Shift(windowStart)
         /\ lastTxTs' = Shift(lastTxTs)
         /\ reqs' = [i \in DOMAIN reqs |->
                        [reqs[i] EXCEPT !.start = Shift(@), !.wake = Shift(@)]]
         /\ UNCHANGED <<now, calls, win, world>>

\* The response was sent; the slot serves the next request.
Close(i) ==
    /\ reqs[i].pc = "done"
    /\ reqs' = [reqs EXCEPT ![i] = Idle]
    /\ UNCHANGED <<now, calls, windowStart, lastTxTs, win, world>>

\* The first server started with POOL_ADDRESS = env, its clients and the
\* node: every body and every answer of the model.  source is the key the
\* server names as fromPubkey and payer.
RelayWorld(env) ==
    [server |-> "relay", poolAddress |-> env, source |-> PoolPubkey(env),
     relayBodies |-> RelayBodies, withdrawBodies |-> {},
     errors |-> NodeErrors, hashes |-> Blockhashes, statuses |-> Statuses]

\* The second server started with POOL_ADDRESS = env, its clients and the
\* node; its transfers are from poolKeypair.publicKey.
WithdrawWorld(env) ==
    [server |-> "withdraw", poolAddress |-> env, source |-> PoolKey,
     relayBodies |-> {}, withdrawBodies |-> WithdrawBodies,
     errors |-> NodeErrors, hashes |-> Blockhashes, statuses |-> Statuses]

\* The server of part_000 started with POOL_ADDRESS = env (it holds no
\* keypair and builds no transfer), its clients and the node.
Part0World(env) ==
    [RelayWorld(env) EXCEPT !.server = "part0", !.source = "none"]

\* The burst: well-formed requests and requests without a recipient to
\* the first server, with a node that knows one reference hash and one
\* error.
BurstWorld ==
    [RelayWorld("") EXCEPT
        !.relayBodies =
            {[NoBody EXCEPT !.recipient = a,
                            !.amountLamports = JNum(Fin(10))] :
                a \in {JUndef, JStr(GoodAddress)}},
        !.errors = {MsgBlockhashNotFound},
        !.hashes = {"H1"}]

\* Fewer clients: each server with a well-formed request and one that
\* fails its checks, and a node with one reference hash, an expiry and
\* another error, and every status.
SmallRelayWorld(env) ==
    [RelayWorld(env) EXCEPT
        !.relayBodies =
            {[NoBody EXCEPT !.recipient = JStr(GoodAddress),
                            !.amountLamports = l] :
                l \in {JNum(Fin(10)), JNum(Fin(3)), JUndef}},
        !.errors = {MsgBlockhashNotFound, MsgInsufficient},
        !.hashes = {"H1"}]

SmallWithdrawWorld(env) ==
    [WithdrawWorld(env) EXCEPT
        !.withdrawBodies =
            {[NoBody EXCEPT !.to = a, !.amount = JNum(Fin(2))] :
                a \in {JStr(GoodAddress), JStr(BadAddress)}},
        !.errors = {MsgBlockhashNotFound, MsgInsufficient},
        !.hashes = {"H1"}]

\* The second server with requests in flight together: a well-formed
\* request and one without a target, and a node with one reference hash,
\* one error and two statuses.
GapWorld ==
    [WithdrawWorld(PoolKey) EXCEPT
        !.withdrawBodies =
            {[NoBody EXCEPT !.to = a, !.amount = JNum(Fin(2))] :
                a \in {JStr(GoodAddress), JUndef}},
        !.errors = {MsgInsufficient},
        !.hashes = {"H1"},
        !.statuses = {[cs |-> "processed", err |-> FALSE],
                      [cs |-> "confirmed", err |-> FALSE]}]

Start(n, w) ==
    /\ now = StartMs
    /\ calls = 0
    /\ windowStart = StartMs
    /\ lastTxTs = 0
    /\ reqs = [i \in 1..n |-> Idle]
    /\ win = NoWin
    /\ world = w

Next ==
    \/ \E i \in DOMAIN reqs : RelayArrive(i)
    \/ RpcProxyArrive
    \/ \E i \in DOMAIN reqs : RelayHashReturn(i)
    \/ \E i \in DOMAIN reqs : RelaySendReturn(i)
    \/ \E i \in DOMAIN reqs : WithdrawArrive(i)
    \/ \E i \in DOMAIN reqs : WithdrawHashReturn(i)
    \/ \E i \in DOMAIN reqs : WithdrawSendReturn(i)
    \/ \E i \in DOMAIN reqs : WithdrawStatusReturn(i)
    \/ \E i \in DOMAIN reqs : WithdrawWake(i)
    \/ Part0RpcProxyArrive
    \/ \E i \in DOMAIN reqs : Part0RelayArrive(i)
    \/ \E i \in DOMAIN reqs : Close(i)
    \/ Tick

\* The burst: every slot serves one request.
NextBurst ==
    \/ \E i \in DOMAIN reqs : RelayArrive(i)
    \/ RpcProxyArrive
    \/ \E i \in DOMAIN reqs : RelayHashReturn(i)
    \/ \E i \in DOMAIN reqs : RelaySendReturn(i)
    \/ Tick

\* The second server with its requests interleaved.
NextGap ==
    \/ \E i \in DOMAIN reqs : WithdrawArrive(i)
    \/ \E i \in DOMAIN reqs : WithdrawHashReturn(i)
    \/ \E i \in DOMAIN reqs : WithdrawSendReturn(i)
    \/ \E i \in DOMAIN reqs : WithdrawStatusReturn(i)
    \/ \E i \in DOMAIN reqs : WithdrawWake(i)
    \/ \E i \in DOMAIN reqs : Close(i)
    \/ Tick

\* The process is one of the two servers of src/server.js, started with
\* the POOL_ADDRESS of its deployment (unset for the first server, the
\* address of the keypair for the second), or the server of part_000.
Init ==
    \/ Start(1, RelayWorld(""))
    \/ Start(1, WithdrawWorld(PoolKey))
    \/ Start(1, Part0World(PoolKey))
\* Either server started with any POOL_ADDRESS with which its module-level
\* code runs through to app.listen.
InitConfig ==
    \E env \in PoolAddresses :
        \/ RelayStarts(env) /\ Start(1, SmallRelayWorld(env))
        \/ WithdrawStarts(env) /\ Start(1, SmallWithdrawWorld(env))
        \/ Part0Starts(env) /\ Start(1, Part0World(env))
InitBurst == Start(NumBurst, BurstWorld)
InitGap == Start(2, GapWorld)
InitLive ==
    Start(1, SmallRelayWorld("")) \/ Start(1, SmallWithdrawWorld(PoolKey))

\* Every step of Next, with the clock that has no end.
NextLive ==
    \/ \E i \in DOMAIN reqs : RelayArrive(i)
    \/ RpcProxyArrive
    \/ \E i \in DOMAIN reqs : RelayHashReturn(i)
    \/ \E i \in DOMAIN reqs : RelaySendReturn(i)
    \/ \E i \in DOMAIN reqs : WithdrawArrive(i)
    \/ \E i \in DOMAIN reqs : WithdrawHashReturn(i)
    \/ \E i \in DOMAIN reqs : WithdrawSendReturn(i)
    \/ \E i \in DOMAIN reqs : WithdrawStatusReturn(i)
    \/ \E i \in DOMAIN reqs : WithdrawWake(i)
    \/ \E i \in DOMAIN reqs : Close(i)
    \/ TickLive

\* Every RPC call returns or fails, every timer fires, the clock advances.
Fairness ==
    /\ WF_vars(TickLive)
    /\ WF_vars(RelayHashReturn(1)) /\ WF_vars(RelaySendReturn(1))
    /\ WF_vars(WithdrawHashReturn(1)) /\ WF_vars(WithdrawSendReturn(1))
    /\ WF_vars(WithdrawStatusReturn(1)) /\ WF_vars(WithdrawWake(1))

\* One server, one request at a time, against every answer of the node.
Spec == Init /\ [][Next]_vars
\* The second server with two requests at a time.
SpecGap == InitGap /\ [][NextGap]_vars
\* One server under every configuration it starts with.
SpecConfig == InitConfig /\ [][Next]_vars
\* One server under the assumptions of termination.
SpecLive == InitLive /\ [][NextLive]_vars /\ Fairness
\* The first server with NumBurst requests in flight.
SpecBurst == InitBurst /\ [][NextBurst]_vars

(* ------------------------------------------------------------------ *)
(* Vocabulary of the properties                                        *)
(* ------------------------------------------------------------------ *)
\* The RPC calls a request made during its a-th call of doWithdraw.
RpcOf(r, a) == SelectSeq(r.rpc, LAMBDA e : e.a = a)
Methods(calls_) == [k \in 1..Len(calls_) |-> calls_[k].m]
Sends(r) == Len(SelectSeq(r.rpc, LAMBDA e : e.m = "sendRawTransaction"))

\* The messages of the model that name an expired reference hash.
ExpiryClass == {MsgBlockhashNotFound, MsgBlockHeightExceeded, MsgExpired}

\* The recipient string the handler hands to new PublicKey, when the body
\* names one.
RecipientGiven(r) ==
    IF r.handler = "relay" THEN r.body.recipient.s ELSE Target(r.body)

\* A request whose recipient string is present and fails address parsing.
UnparseableRecipient(r) ==
    /\ r.handler \in {"relay", "withdraw"}
    /\ RecipientGiven(r) # ""
    /\ RecipientGiven(r) # GoodAddress

\* A number that is a positive integer count of minimal units.
PositiveInteger(x) == x.k = "fin" /\ x.h > 0 /\ x.h % 2 = 0

\* Whether the amount of the request is a valid one: amountLamports a
\* positive integer, or (second server, without amountLamports) amount a
\* positive finite number of SOL.
ValidAmount(r) ==
    IF r.handler = "relay" \/ r.body.amountLamports.t # "undefined"
    THEN PositiveInteger(ToNumber(r.body.amountLamports))
    ELSE LET x == ToNumber(r.body.amount) IN x.k = "fin" /\ x.h > 0

Live(r) == r.handler \in {"relay", "withdraw"}

(* ------------------------------------------------------------------ *)
(* Properties                                                          *)
(* ------------------------------------------------------------------ *)
\* C1: when the first doWithdraw of a handleRelay request fails with a
\* hash-expiry error, doWithdraw is called exactly once more, that call
\* asks getLatestBlockhash before anything else it sends, and the request
\* submits at most two transactions, however the second call ends.
C1_RetryOnceOnExpiry ==
    \A i \in DOMAIN reqs :
        LET r == reqs[i]
        IN  (r.handler = "relay" /\ r.attempts >= 1 /\ r.err1 \in ExpiryClass)
            => /\ r.attempts = 2
               /\ Methods(RpcOf(r, 2)) \in
                      {<<"getLatestBlockhash">>,
                       <<"getLatestBlockhash", "sendRawTransaction">>}
               /\ Sends(r) <= 2
               /\ Len(r.txs) = Sends(r)

\* A request whose first submission and whose retry both failed with an
\* expiry error, after two submissions.
C1_Witness ==
    \E i \in DOMAIN reqs :
        /\ reqs[i].handler = "relay" /\ reqs[i].pc = "done"
        /\ reqs[i].err1 = MsgBlockhashNotFound
        /\ Sends(reqs[i]) = 2
        /\ reqs[i].resp.error \in ExpiryClass

\* C2: when the first attempt of a handleRelay request fails with an error
\* that is no hash-expiry error, doWithdraw is not called again, no RPC call
\* follows, and the request has ended with an ok:false response.
C2_NoRetryOnOtherError ==
    \A i \in DOMAIN reqs :
        LET r == reqs[i]
        IN  (r.handler = "relay" /\ r.attempts >= 1 /\ r.err1 # NoMsg
                /\ r.err1 \notin ExpiryClass)
            => /\ r.attempts = 1
               /\ RpcOf(r, 2) = <<>>
               /\ r.pc = "done"
               /\ r.resp.sent /\ ~r.resp.ok /\ r.resp.error = r.err1

\* A request whose first submission the node rejected for insufficient
\* balance.
C2_Witness ==
    \E i \in DOMAIN reqs :
        /\ reqs[i].handler = "relay" /\ reqs[i].pc = "done"
        /\ reqs[i].err1 = MsgInsufficient
        /\ Sends(reqs[i]) = 1

\* C3: a handleWithdraw request whose broadcast returned a signature ends
\* with ok:true and that signature; when no confirmed or finalized status
\* was observed (the poll timed out or a status query failed), the response
\* also carries the 'confirmation pending' note.
C3_BroadcastNeverFailed ==
    \A i \in DOMAIN reqs :
        LET r == reqs[i]
        IN  (r.handler = "withdraw" /\ r.bsig # NoSig /\ r.pc = "done")
            => /\ r.resp.sent /\ r.resp.ok
               /\ r.resp.signature = r.bsig
               /\ (r.seen \notin {"confirmed", "finalized"} => r.resp.note)

\* A request that polled twice, last saw 'processed', and ran out of time.
C3_Witness ==
    \E i \in DOMAIN reqs :
        /\ reqs[i].handler = "withdraw" /\ reqs[i].pc = "done"
        /\ reqs[i].bsig # NoSig
        /\ reqs[i].seen = "processed"
        /\ Len(reqs[i].rpc) >= 4
        /\ now - reqs[i].start >= ConfirmTimeoutMs

\* C4: a request to either handler whose recipient string fails address
\* parsing has ended with an ok:false response, has issued no RPC call and
\* has not been retried.
C4_BadRecipientNoRpc ==
    \A i \in DOMAIN reqs :
        LET r == reqs[i]
        IN  UnparseableRecipient(r)
            => /\ r.pc = "done"
               /\ r.resp.sent /\ ~r.resp.ok
               /\ r.rpc = <<>> /\ r.txs = <<>>
               /\ r.attempts <= 1

\* An admitted handleRelay request with a valid amount and an unparseable
\* recipient: doWithdraw was entered and threw.
C4_Witness ==
    \E i \in DOMAIN reqs :
        /\ reqs[i].handler = "relay"
        /\ UnparseableRecipient(reqs[i]) /\ ValidAmount(reqs[i])
        /\ reqs[i].gate = "admitted"
        /\ reqs[i].attempts = 1
        /\ reqs[i].resp.error = MsgInvalidPublicKey

\* C5: a request to either handler whose amount is not a positive integer
\* count of minimal units has ended with an ok:false response and has
\* issued no RPC call.
C5_BadAmountNoRpc ==
    \A i \in DOMAIN reqs :
        LET r == reqs[i]
        IN  (Live(r) /\ ~ValidAmount(r))
            => /\ r.pc = "done"
               /\ r.resp.sent /\ ~r.resp.ok
               /\ r.rpc = <<>>

\* C6: when TX_RATELIMIT + 1 requests reached handleRelay in the current
\* window and no other route called guard(), one of them was rejected and
\* TX_RATELIMIT were admitted; an admitted request past the two checks of
\* its body has entered doWithdraw, a rejected one has not.
C6_BurstRejectsOne ==
    /\ (win.other = 0 /\ win.arr = TX_RATELIMIT + 1)
        => (win.rej = 1 /\ win.adm = TX_RATELIMIT)
    /\ \A i \in DOMAIN reqs :
        LET r == reqs[i]
        IN  r.handler = "relay" =>
              /\ (r.gate = "admitted" /\ Truthy(r.body.recipient)
                    /\ ValidAmount(r)) => r.attempts >= 1
              /\ r.gate = "denied" => r.attempts = 0

\* TX_RATELIMIT + 1 requests in one window: the admitted ones are in
\* flight together, the last one was rejected.
C6_Witness ==
    /\ win.other = 0 /\ win.arr = TX_RATELIMIT + 1 /\ win.rej = 1
    /\ Cardinality({i \in DOMAIN reqs :
                       reqs[i].gate = "admitted"
                       /\ reqs[i].pc \in {"hash", "send"}}) = TX_RATELIMIT
    /\ \E i \in DOMAIN reqs : reqs[i].gate = "denied"

\* C7: a handler answers ok:true with a signature and no note only after a
\* status poll of that signature saw 'confirmed' or 'finalized'.
C7_PlainSuccessIsConfirmed ==
    \A i \in DOMAIN reqs :
        LET r == reqs[i]
        IN  (Live(r) /\ r.pc = "done" /\ r.resp.ok /\ ~r.resp.note)
            => r.seen \in {"confirmed", "finalized"}

\* C8: a request the admission gate denied has ended with an ok:false
\* response without doWithdraw (or the build of handleWithdraw) being
\* entered: no RPC call, no transaction, no retry.
C8_DeniedNeverInvoked ==
    \A i \in DOMAIN reqs :
        LET r == reqs[i]
        IN  r.gate = "denied"
            => /\ r.pc = "done"
               /\ r.resp.sent /\ ~r.resp.ok
               /\ r.attempts = 0 /\ r.phase = 1
               /\ r.rpc = <<>> /\ r.txs = <<>>

\* A handleRelay request that guard() rejected.
C8_Witness ==
    \E i \in DOMAIN reqs :
        /\ reqs[i].handler = "relay" /\ reqs[i].gate = "denied"
        /\ reqs[i].resp.error = MsgRateLimit
        /\ ValidAmount(reqs[i]) /\ reqs[i].body.recipient = JStr(GoodAddress)

\* The class of a failed request: the gate's denial, a fault of the body,
\* an expired reference hash, or the node and the transport to it.
ErrorClass(r) ==
    CASE r.gate = "denied" -> "rate"
      [] r.resp.error \in
            {MsgRecipientRequired, MsgAmountLamports, MsgInvalidPublicKey,
             MsgNotAnInteger, MsgTargetRequired, MsgAmountRequired,
             MsgInvalidAmount, MsgBigIntSyntax} -> "validation"
      [] r.resp.error \in ExpiryClass -> "expiry"
      [] OTHER -> "upstream"

StatusOfClass(c) ==
    CASE c = "validation" -> 400
      [] c = "rate" -> 409
      [] c = "expiry" -> 409
      [] OTHER -> 502

\* C9: a failed request is answered 400 for a validation failure, 409 for
\* a rate-limit denial or an expiry conflict, 502 for an upstream failure.
C9_StatusByClass ==
    \A i \in DOMAIN reqs :
        LET r == reqs[i]
        IN  (Live(r) /\ r.pc = "done" /\ ~r.resp.ok)
            => r.resp.status = StatusOfClass(ErrorClass(r))

\* C10: the two transactions a handleRelay request submits are never the
\* same signed bytes.
C10_RetryBytesDiffer ==
    \A i \in DOMAIN reqs :
        LET r == reqs[i]
        IN  (r.handler = "relay" /\ Len(r.txs) = 2) => r.txs[1] # r.txs[2]

\* The integer a JSON value denotes: a number itself, a string the value of
\* its decimal literal.
ExactInteger(v) == IF v.t = "string" THEN BigIntOfString(v.s) ELSE v.n

\* The amount a request asks for, in minimal units: amountLamports as
\* given or, when only amount is given, round(amount x 10^9).
RequestedLamports(r) ==
    IF r.handler = "relay" \/ r.body.amountLamports.t # "undefined"
    THEN ExactInteger(r.body.amountLamports)
    ELSE MathRound(SolToLamports(ToNumber(r.body.amount)))

\* C11: every transaction a request has built, on the first attempt and on
\* the retry, is a transfer from the pool's key, signed by it, to the key of
\* the recipient the request names, of exactly the amount the request asks
\* for.
C11_ExactTransfer ==
    \A i \in DOMAIN reqs :
        LET r == reqs[i]
        IN  \A k \in 1..Len(r.txs) :
                /\ r.txs[k].from = PoolKey /\ r.txs[k].signer = PoolKey
                /\ r.txs[k].to = PublicKeyOf(RecipientGiven(r))
                /\ r.txs[k].lamports = RequestedLamports(r)

\* C12: a handleWithdraw request one of whose status polls reported the
\* transaction with a non-null err has ended with an ok:false response.
C12_ExecutionErrorFails ==
    \A i \in DOMAIN reqs :
        LET r == reqs[i]
        IN  (r.handler = "withdraw" /\ r.seenErr)
            => (r.pc = "done" /\ r.resp.sent /\ ~r.resp.ok)

\* A request whose handler is waiting for an RPC call or for a timer.
Pending(r) == r.pc \in {"hash", "send", "status", "sleep"}

\* C13: at every moment a request has sent one response if its handler
\* has ended and none otherwise, and a request that waits for an RPC call
\* or for the poll timer eventually ends with its response sent.
C13_EndsWithOneResponse ==
    /\ [](\A i \in DOMAIN reqs :
            /\ reqs[i].nresp = (IF reqs[i].pc = "done" THEN 1 ELSE 0)
            /\ reqs[i].resp.sent = (reqs[i].pc = "done")
            /\ Live(reqs[i]) => (Pending(reqs[i]) \/ reqs[i].pc = "done"))
    /\ (Pending(reqs[1]) ~> (reqs[1].pc = "done" /\ reqs[1].nresp = 1))

\* A handleWithdraw request that polled until its budget was used up and
\* then sent its one response.
C13_Witness ==
    /\ reqs[1].handler = "withdraw" /\ reqs[1].pc = "done"
    /\ reqs[1].nresp = 1 /\ reqs[1].resp.note
    /\ reqs[1].seen \in {"null", "processed"}
    /\ Len(reqs[1].rpc) >= 4
    /\ now - reqs[1].start >= ConfirmTimeoutMs

\* C14: whenever a withdrawal request is being served, POOL_ADDRESS is
\* unset or is the address of the loaded keypair, and the key the server
\* names as the source of its transfers is the public key of the keypair
\* that signs.
C14_PoolAddressMatches ==
    (\E i \in DOMAIN reqs : Live(reqs[i]))
        => /\ world.poolAddress \in {"", PoolKey}
           /\ world.source = PoolKey

\* C15: in either server with a guard(), the calls of guard() that
\* returned without throwing in the current window are at most
\* TX_RATELIMIT.
C15_WindowAdmitsAtMostLimit == win.pass <= TX_RATELIMIT

\* C16: when confirmBySignature ends because its time budget is used up,
\* it ends by returning a value to its caller, not by an exception.
C16_TimeoutReturnsUnknown ==
    \A i \in DOMAIN reqs :
        reqs[i].cbs.why = "timeout" => reqs[i].cbs.how = "return"

\* C17: with a non-zero TX_MIN_GAP_SEC, a request checkRateLimit() admits
\* arrives at least TX_MIN_GAP_SEC seconds after the latest request it
\* admitted before, whatever is in flight, and the arrival of a request it
\* denies leaves lastTxTs as it was.
C17_AdmissionsApart ==
    [][\A i \in DOMAIN reqs :
          (TX_MIN_GAP_SEC # 0 /\ reqs[i].pc = "idle"
              /\ reqs'[i].handler = "withdraw")
          => /\ reqs'[i].gate = "admitted"
                 => /\ (win.lastAdm = 0
                          \/ now - win.lastAdm >= TX_MIN_GAP_SEC * 1000)
                    /\ lastTxTs' = now
             /\ reqs'[i].gate = "denied" => lastTxTs' = lastTxTs]_vars

\* Two admitted requests in flight together, the later one admitted after
\* the gap, and then a third arrival would be denied.
C17_Witness ==
    /\ \A i \in DOMAIN reqs :
          /\ reqs[i].handler = "withdraw" /\ reqs[i].gate = "admitted"
          /\ Pending(reqs[i])
    /\ Cardinality(DOMAIN reqs) >= 2
    /\ win.lastAdm >= StartMs + TX_MIN_GAP_SEC * 1000
    /\ now - lastTxTs < TX_MIN_GAP_SEC * 1000

\* The calls of getLatestBlockhash a request made: one per build.
Builds(r) == Len(SelectSeq(r.rpc, LAMBDA e : e.m = "getLatestBlockhash"))

\* C18: a handleWithdraw request asks for at most one reference hash,
\* builds at most one transaction and calls sendRawTransaction at most
\* once; once an error reached its outer catch (a denial, a fault of the
\* body, a failure of getLatestBlockhash or of the broadcast, of whatever
\* class) it has ended with an ok:false response and no signature.
C18_SingleBroadcast ==
    \A i \in DOMAIN reqs :
        LET r == reqs[i]
        IN  r.handler = "withdraw"
            => /\ Builds(r) <= 1 /\ Len(r.txs) <= 1 /\ Sends(r) <= 1
               /\ r.err1 # NoMsg
                    => /\ r.pc = "done" /\ r.resp.sent /\ ~r.resp.ok
                       /\ r.resp.error = r.err1
                       /\ r.bsig = NoSig

\* A handleWithdraw request whose broadcast the node refused with an
\* expiry error: Failed after its one submission.
C18_Witness ==
    \E i \in DOMAIN reqs :
        /\ reqs[i].handler = "withdraw" /\ reqs[i].pc = "done"
        /\ reqs[i].err1 \in ExpiryClass
        /\ Sends(reqs[i]) = 1 /\ Len(reqs[i].txs) = 1
        /\ ~reqs[i].resp.ok

====
